---- MODULE Spec2Model ----
(***************************************************************************)
(* Model of goloadbalancer (src/main.go): a reverse proxy that sends each  *)
(* request to the backend chosen by nextServerLeastActive, with one        *)
(* health-check goroutine per backend.                                     *)
(*                                                                         *)
(* Every goroutine is a process with a program counter; one action is one  *)
(* stretch of code between two points where other goroutines can           *)
(* interleave (a Mutex.Lock, an outstanding network call).                 *)
(***************************************************************************)
EXTENDS Integers, Sequences, FiniteSets, TLC

\* ---------------------------------------------------------------- bounds
\* Longest "servers" list of a configuration (Spec).
MaxServers == 2
\* Number of inbound requests handled over a run (Spec).
MaxRequests == 2
\* Longest pool and largest connection count of the pools the selector is
\* applied to in SpecSel.
MaxPool == 3
MaxAC == 5

Requests == 1..MaxRequests
Slots == 1..MaxServers

\* ------------------------------------------------------------ the state
VARIABLES
    phase,      \* "startup" | "serving" | "fatal" (log.Fatalf) | "crashed"
    config,     \* config.Servers: one entry per URL, "ok" or "bad" (unparsable)
    servers,    \* the pool: sequence of Server records
    hc,         \* one health-check goroutine per pool entry
    h           \* one handler goroutine per request

vars == <<phase, config, servers, hc, h>>

\* sync.Mutex: unlocked, or locked by a handler or by a health checker.
Free == [kind |-> "none", id |-> 0]
ByReq(r) == [kind |-> "req", id |-> r]
ByHC(i) == [kind |-> "hc", id |-> i]

\* NewServer without Healthy: true (the zero value).
NewServerUnhealthy == [ActiveConnections |-> 0, Healthy |-> FALSE, Mu |-> Free]

\* &Server{URL: u, Mu: &sync.Mutex{}, Healthy: true}; ActiveConnections is
\* the zero value.
NewServer == [ActiveConnections |-> 0, Healthy |-> TRUE, Mu |-> Free]

\* A handler goroutine before its request has arrived.
IdleHandler ==
    [pc |-> "idle", idx |-> 0, leastActiveConnections |-> 0,
     leastActiveServer |-> 0, server |-> 0, defers |-> 0]

\* A health-check goroutine waiting for its next tick; res = NilRes is a nil
\* *http.Response, any other value a response with that status code.
NilRes == 0
IdleChecker == [pc |-> "tick", err |-> FALSE, res |-> NilRes]

\* What http.Get can hand back: a response with a status code and no error,
\* (nil, err) for a request that did not complete, or a non-nil response
\* with an error (redirect policy failure).
StatusCodes == {200, 499, 500}
ProbeOutcomes ==
    [err : {FALSE}, res : StatusCodes]
        \cup {[err |-> TRUE, res |-> NilRes], [err |-> TRUE, res |-> 302]}

\* How ReverseProxy.ServeHTTP can end: the response was relayed, the backend
\* could not be reached (502 written, normal return), or the copy of the
\* response broke off and ServeHTTP panics with http.ErrAbortHandler.
ForwardOutcomes == {"ok", "fail", "abort"}

Configs ==
    UNION {[1..n -> {"ok", "bad"}] : n \in 0..MaxServers}

Init ==
    /\ phase = "startup"
    /\ config \in Configs
    /\ servers = <<>>
    /\ hc = <<>>
    /\ h = [r \in Requests |-> IdleHandler]

\* main, lines 91-122 and 138-139: build the pool, start the checkers,
\* listen.  An unparsable URL ends the process in log.Fatalf.
Startup ==
    /\ phase = "startup"
    /\ IF \E k \in 1..Len(config) : config[k] = "bad"
       THEN /\ phase' = "fatal"
            /\ UNCHANGED <<servers, hc>>
       ELSE /\ phase' = "serving"
            /\ servers' = [k \in 1..Len(config) |-> NewServer]
            /\ hc' = [k \in 1..Len(config) |-> IdleChecker]
    /\ UNCHANGED <<config, h>>

\* ------------------------------------------------- the request handler
\* A request arrives: net/http starts the handler (line 125).
Arrive(r) ==
    /\ phase = "serving"
    /\ h[r].pc = "idle"
    /\ h' = [h EXCEPT ![r].pc = "select"]
    /\ UNCHANGED <<phase, config, servers, hc>>

\* SelectSeed with the minimum seeded from the sentinel -1.
SelectSeedSentinel(r) ==
    /\ phase = "serving"
    /\ h[r].pc = "select"
    /\ IF Len(servers) = 0
       THEN h' = [h EXCEPT ![r].pc = "panicked"]
       ELSE h' = [h EXCEPT ![r].pc = "scanLock",
                           ![r].idx = 1,
                           ![r].leastActiveConnections = -1,
                           ![r].leastActiveServer = 1]
    /\ UNCHANGED <<phase, config, servers, hc>>

\* nextServerLeastActive, lines 62-63: seed the minimum from servers[0],
\* read without the mutex.  On an empty pool servers[0] panics (index out
\* of range); net/http recovers the panic of a handler.
SelectSeed(r) ==
    /\ phase = "serving"
    /\ h[r].pc = "select"
    /\ IF Len(servers) = 0
       THEN h' = [h EXCEPT ![r].pc = "panicked"]
       ELSE h' = [h EXCEPT ![r].pc = "scanLock",
                           ![r].idx = 1,
                           ![r].leastActiveConnections = servers[1].ActiveConnections,
                           ![r].leastActiveServer = 1]
    /\ UNCHANGED <<phase, config, servers, hc>>

\* line 67: server.Mu.Lock() inside the loop.
ScanLock(r) ==
    /\ phase = "serving"
    /\ h[r].pc = "scanLock"
    /\ servers[h[r].idx].Mu = Free
    /\ servers' = [servers EXCEPT ![h[r].idx].Mu = ByReq(r)]
    /\ h' = [h EXCEPT ![r].pc = "scanBody"]
    /\ UNCHANGED <<phase, config, hc>>

\* Replaces with the comparison turned around.
ReplacesGreater(s, least) ==
    s.Healthy /\ (s.ActiveConnections > least \/ least = -1)

\* The comparison of lines 68-69.
Replaces(s, least) ==
    s.Healthy /\ (s.ActiveConnections < least \/ least = -1)

\* ScanVisit without the Unlock of line 74.
ScanVisitKeepsLock(r) ==
    /\ phase = "serving"
    /\ h[r].pc = "scanBody"
    /\ LET i == h[r].idx
           s == servers[i]
           rep == Replaces(s, h[r].leastActiveConnections)
           lac == IF rep THEN s.ActiveConnections ELSE h[r].leastActiveConnections
           las == IF rep THEN i ELSE h[r].leastActiveServer
       IN /\ UNCHANGED servers
          /\ IF i < Len(servers)
             THEN h' = [h EXCEPT ![r].pc = "scanLock",
                                 ![r].idx = i + 1,
                                 ![r].leastActiveConnections = lac,
                                 ![r].leastActiveServer = las]
             ELSE h' = [h EXCEPT ![r].pc = "lock127",
                                 ![r].idx = 0,
                                 ![r].leastActiveConnections = lac,
                                 ![r].leastActiveServer = las,
                                 ![r].server = las]
    /\ UNCHANGED <<phase, config, hc>>

\* lines 68-75 and 77: compare, unlock, next entry; after the last entry the
\* selector returns leastActiveServer to the handler (line 126).
ScanVisit(r) ==
    /\ phase = "serving"
    /\ h[r].pc = "scanBody"
    /\ LET i == h[r].idx
           s == servers[i]
           rep == Replaces(s, h[r].leastActiveConnections)
           lac == IF rep THEN s.ActiveConnections ELSE h[r].leastActiveConnections
           las == IF rep THEN i ELSE h[r].leastActiveServer
       IN /\ servers' = [servers EXCEPT ![i].Mu = Free]
          /\ IF i < Len(servers)
             THEN h' = [h EXCEPT ![r].pc = "scanLock",
                                 ![r].idx = i + 1,
                                 ![r].leastActiveConnections = lac,
                                 ![r].leastActiveServer = las]
             ELSE h' = [h EXCEPT ![r].pc = "lock127",
                                 ![r].idx = 0,
                                 ![r].leastActiveConnections = lac,
                                 ![r].leastActiveServer = las,
                                 ![r].server = las]
    /\ UNCHANGED <<phase, config, hc>>

\* lines 127-128 and 133-134: server.Mu.Lock(); defer server.Mu.Unlock().
HandlerLock(r) ==
    /\ phase = "serving"
    /\ h[r].pc \in {"lock127", "lock133"}
    /\ servers[h[r].server].Mu = Free
    /\ servers' = [servers EXCEPT ![h[r].server].Mu = ByReq(r)]
    /\ h' = [h EXCEPT ![r].pc = IF h[r].pc = "lock127" THEN "inc129" ELSE "dec135",
                      ![r].defers = h[r].defers + 1]
    /\ UNCHANGED <<phase, config, hc>>

\* line 129: ActiveConnections++ and the call of ServeHTTP; line 135:
\* ActiveConnections-- and the return of the handler, which runs the
\* deferred Unlocks: the first releases the mutex, a second one finds it
\* unlocked, which is a fatal runtime error.
HandlerCount(r) ==
    /\ phase = "serving"
    /\ h[r].pc \in {"inc129", "dec135"}
    /\ LET i == h[r].server IN
       IF h[r].pc = "inc129"
       THEN /\ servers' = [servers EXCEPT
                             ![i].ActiveConnections = servers[i].ActiveConnections + 1]
            /\ h' = [h EXCEPT ![r].pc = "forward"]
            /\ UNCHANGED phase
       ELSE /\ servers' = [servers EXCEPT
                             ![i].ActiveConnections = servers[i].ActiveConnections - 1,
                             ![i].Mu = Free]
            /\ h' = [h EXCEPT ![r].pc = "done", ![r].defers = 0]
            /\ phase' = IF h[r].defers > 1 THEN "crashed" ELSE phase
    /\ UNCHANGED <<config, hc>>

\* ForwardDone that takes a failed forward as a health signal.
ForwardDoneMarksUnhealthy(r, out) ==
    /\ phase = "serving"
    /\ h[r].pc = "forward"
    /\ IF out = "abort"
       THEN /\ servers' = [servers EXCEPT ![h[r].server].Mu = Free]
            /\ h' = [h EXCEPT ![r].pc = "panicked", ![r].defers = 0]
       ELSE /\ h' = [h EXCEPT ![r].pc = "lock133"]
            /\ servers' = [servers EXCEPT
                             ![h[r].server].Healthy =
                                 IF out = "fail" THEN FALSE
                                 ELSE servers[h[r].server].Healthy]
    /\ UNCHANGED <<phase, config, hc>>

\* line 131: server.Proxy().ServeHTTP(w, r) ends.  A normal return goes on to
\* line 133; a panic unwinds the handler through the Unlock deferred at line
\* 128.
ForwardDone(r, out) ==
    /\ phase = "serving"
    /\ h[r].pc = "forward"
    /\ IF out = "abort"
       THEN /\ servers' = [servers EXCEPT ![h[r].server].Mu = Free]
            /\ h' = [h EXCEPT ![r].pc = "panicked", ![r].defers = 0]
       ELSE /\ h' = [h EXCEPT ![r].pc = "lock133"]
            /\ UNCHANGED servers
    /\ UNCHANGED <<phase, config, hc>>

\* ---------------------------------------------------- the health checker
\* HCTick with the lock taken before the probe instead of after it.
HCTickLockFirst(i) ==
    /\ phase = "serving"
    /\ i \in DOMAIN hc
    /\ hc[i].pc = "tick"
    /\ servers[i].Mu = Free
    /\ servers' = [servers EXCEPT ![i].Mu = ByHC(i)]
    /\ hc' = [hc EXCEPT ![i].pc = "probing"]
    /\ UNCHANGED <<phase, config, h>>

\* lines 104-105: a tick arrives and http.Get is called.
HCTick(i) ==
    /\ phase = "serving"
    /\ i \in DOMAIN hc
    /\ hc[i].pc = "tick"
    /\ hc' = [hc EXCEPT ![i].pc = "probing"]
    /\ UNCHANGED <<phase, config, servers, h>>

\* line 105: http.Get returns res, err.
HCProbeDone(i, o) ==
    /\ phase = "serving"
    /\ i \in DOMAIN hc
    /\ hc[i].pc = "probing"
    /\ hc' = [hc EXCEPT ![i] = [pc |-> "lock106", err |-> o.err, res |-> o.res]]
    /\ UNCHANGED <<phase, config, servers, h>>

\* line 106: s.Mu.Lock().
HCLock(i) ==
    /\ phase = "serving"
    /\ i \in DOMAIN hc
    /\ hc[i].pc = "lock106"
    /\ servers[i].Mu = Free
    /\ servers' = [servers EXCEPT ![i].Mu = ByHC(i)]
    /\ hc' = [hc EXCEPT ![i].pc = "locked"]
    /\ UNCHANGED <<phase, config, h>>

\* line 113: the new value of Healthy.
ProbeHealthy(err, res) == ~(err \/ res >= 500)

\* lines 108-119: res.Body.Close() dereferences res, a nil pointer when the
\* request did not complete: the goroutine panics and the process dies with
\* the mutex held.  Otherwise set Healthy and unlock.
HCUpdate(i) ==
    /\ phase = "serving"
    /\ i \in DOMAIN hc
    /\ hc[i].pc = "locked"
    /\ IF hc[i].res = NilRes
       THEN /\ phase' = "crashed"
            /\ UNCHANGED <<servers, hc>>
       ELSE /\ servers' = [servers EXCEPT
                             ![i].Healthy = ProbeHealthy(hc[i].err, hc[i].res),
                             ![i].Mu = Free]
            /\ hc' = [hc EXCEPT ![i] = IdleChecker]
            /\ UNCHANGED phase
    /\ UNCHANGED <<config, h>>

\* ------------------------------------------------------- specifications
Handler(r) ==
    \/ Arrive(r)
    \/ SelectSeed(r)
    \/ ScanLock(r)
    \/ ScanVisit(r)
    \/ HandlerLock(r)
    \/ HandlerCount(r)
    \/ \E out \in ForwardOutcomes : ForwardDone(r, out)

Checker(i) ==
    \/ HCTick(i)
    \/ \E o \in ProbeOutcomes : HCProbeDone(i, o)
    \/ HCLock(i)
    \/ HCUpdate(i)

Next ==
    \/ Startup
    \/ \E r \in Requests : Handler(r)
    \/ \E i \in Slots : Checker(i)

Spec == Init /\ [][Next]_vars

\* The selector and the dispatcher applied to one request on a pool that
\* nothing else touches: the pool is any state the balancer can be in between
\* requests (health set by earlier probes, counts left by earlier requests),
\* and only request 1 runs.
Pools ==
    UNION {[1..n -> [ActiveConnections : 0..MaxAC, Healthy : BOOLEAN, Mu : {Free}]] :
             n \in 0..MaxPool}

InitSel ==
    /\ phase = "serving"
    /\ servers \in Pools
    /\ config = [k \in 1..Len(servers) |-> "ok"]
    /\ hc = [k \in 1..Len(servers) |-> IdleChecker]
    /\ h = [r \in Requests |-> IdleHandler]

NextSel == Handler(1)

SpecSel == InitSel /\ [][NextSel]_vars

\* The Go scheduler runs every runnable goroutine, a timer tick arrives, and
\* a waiter of a sync.Mutex gets the mutex if it is free again and again
\* (starvation mode).  Nothing makes a request arrive, or a network call
\* return.
FairSpec ==
    /\ Spec
    /\ \A r \in Requests :
         /\ WF_vars(SelectSeed(r))
         /\ SF_vars(ScanLock(r))
         /\ WF_vars(ScanVisit(r))
         /\ SF_vars(HandlerLock(r))
         /\ WF_vars(HandlerCount(r))
    /\ \A i \in Slots :
         /\ WF_vars(HCTick(i))
         /\ SF_vars(HCLock(i))
         /\ WF_vars(HCUpdate(i))

\* ------------------------------------------------------------- helpers
Pool == DOMAIN servers
HealthyServers == {i \in Pool : servers[i].Healthy}
\* The selector has returned to handler r (line 126), nothing done yet.
Selected(r) == h[r].pc = "lock127"
\* Requests whose ServeHTTP call on backend i is outstanding.
InFlight(i) == {r \in Requests : h[r].pc = "forward" /\ h[r].server = i}

\* -------------------------------------------------------------- claims
\* C1: whenever at least one backend is healthy, the backend the selector
\* returns is healthy.
C1_ReturnsHealthy ==
    \A r \in Requests :
        (Selected(r) /\ HealthyServers # {}) => servers[h[r].server].Healthy

\* C2: on an unchanged pool with a healthy backend, the returned backend has
\* no more active connections than any healthy backend.
C2_LeastAmongHealthy ==
    \A r \in Requests :
        (Selected(r) /\ HealthyServers # {}) =>
            \A i \in HealthyServers :
                servers[h[r].server].ActiveConnections <= servers[i].ActiveConnections

\* Scenario A: [(healthy,2), (healthy,0), (healthy,5)] yields the second entry.
C2_Witness ==
    /\ Len(servers) = 3
    /\ \A i \in Pool : servers[i].Healthy
    /\ servers[1].ActiveConnections = 2
    /\ servers[2].ActiveConnections = 0
    /\ servers[3].ActiveConnections = 5
    /\ Selected(1)
    /\ h[1].server = 2

\* The healthy backends with the fewest active connections.
MinHealthy ==
    {i \in HealthyServers :
        \A j \in HealthyServers :
            servers[i].ActiveConnections <= servers[j].ActiveConnections}

\* C3: when several healthy backends share the minimum, the selector returns
\* the first of them in pool order.
C3_FirstOfTies ==
    \A r \in Requests :
        (Selected(r) /\ Cardinality(MinHealthy) >= 2) =>
            /\ h[r].server \in MinHealthy
            /\ \A j \in MinHealthy : h[r].server <= j

Dispatched(r) == h[r].pc # "idle"
ForwardReturned(r) == h[r].pc \in {"lock133", "dec135", "done"}

\* C4: once the forwarding call of every dispatched request has returned,
\* eventually every handler has finished and every count is 0.
C4_CountsReturnToZero ==
    ((\E r \in Requests : Dispatched(r))
        /\ \A r \in Requests : Dispatched(r) => ForwardReturned(r))
    ~> ((\A r \in Requests : Dispatched(r) => h[r].pc = "done")
        /\ \A i \in Pool : servers[i].ActiveConnections = 0)

\* C5: a backend's count is never negative and is the number of requests in
\* flight on it.
C5_CountIsInFlight ==
    \A i \in Pool :
        /\ servers[i].ActiveConnections >= 0
        /\ servers[i].ActiveConnections = Cardinality(InFlight(i))

\* C6: the step that ends a health-check iteration leaves healthy equal to
\* the outcome of the probe: false for a request that failed or a status
\* >= 500, true for a status < 500.
C6_FlagFollowsProbe ==
    [][\A i \in Slots :
          HCUpdate(i) => servers'[i].Healthy = (~hc[i].err /\ hc[i].res < 500)]_vars

\* C7: with every backend of a non-empty pool unhealthy, the selector hands
\* no backend to the dispatcher and nothing is forwarded.
C7_NoHealthyIsAnError ==
    \A r \in Requests :
        (Pool # {} /\ HealthyServers = {}) =>
            h[r].pc \notin {"lock127", "inc129", "forward"}

\* C8: a configuration without backends never gets to serve, and the
\* selector is never called on an empty pool.
C8_EmptyPoolRejected ==
    /\ Len(config) = 0 => phase \in {"startup", "fatal"}
    /\ \A r \in Requests : h[r].pc = "select" => Len(servers) > 0

\* C9: a handler does not hold its backend's mutex while its forwarding call
\* is outstanding.
C9_GuardFreeWhileForwarding ==
    \A r \in Requests :
        h[r].pc = "forward" => servers[h[r].server].Mu # ByReq(r)

\* C10: a health checker does not hold its backend's mutex while its probe
\* is outstanding.
C10_NoGuardDuringProbe ==
    \A i \in DOMAIN hc :
        hc[i].pc = "probing" => servers[i].Mu # ByHC(i)

\* A handler holds the mutex of a backend whose probe is outstanding.
C10_Witness ==
    \E i \in DOMAIN hc : \E r \in Requests :
        /\ hc[i].pc = "probing"
        /\ servers[i].Mu = ByReq(r)

\* The backends whose ActiveConnections or Healthy the next step of handler r
\* reads or writes: line 62 (servers[0]), lines 68-70 (the entry scanned),
\* lines 129 and 135 (the chosen backend).
HandlerAccess(r) ==
    IF h[r].pc = "select" /\ Len(servers) > 0 THEN {1}
    ELSE IF h[r].pc = "scanBody" THEN {h[r].idx}
    ELSE IF h[r].pc \in {"inc129", "dec135"} THEN {h[r].server}
    ELSE {}

\* The same for health checker i: lines 114 and 116.
CheckerAccess(i) ==
    IF hc[i].pc = "locked" /\ hc[i].res # NilRes THEN {i} ELSE {}

\* C11: whoever is about to read or write a backend's ActiveConnections or
\* Healthy holds that backend's mutex.
C11_AccessUnderGuard ==
    /\ \A r \in Requests : \A i \in HandlerAccess(r) : servers[i].Mu = ByReq(r)
    /\ \A i \in DOMAIN hc : \A j \in CheckerAccess(i) : servers[j].Mu = ByHC(i)

\* C12: the step that ends the iteration of a failed probe (error or status
\* >= 500) sets healthy to false, releases the mutex and leaves the checker
\* waiting for its next tick in a process that is still serving.
C12_ProbeFailureRecovered ==
    [][\A i \in Slots :
          (HCUpdate(i) /\ (hc[i].err \/ hc[i].res >= 500)) =>
              /\ ~servers'[i].Healthy
              /\ servers'[i].Mu = Free
              /\ hc'[i].pc = "tick"
              /\ phase' = "serving"]_vars

\* C13: a backend's healthy flag changes only in the update step of its own
\* health checker, and its activeConnections only in the counting step of a
\* handler that chose it.
C13_FieldOwnership ==
    [][\A i \in Pool :
          /\ servers'[i].Healthy # servers[i].Healthy => HCUpdate(i)
          /\ servers'[i].ActiveConnections # servers[i].ActiveConnections =>
                \E r \in Requests : HandlerCount(r) /\ h[r].server = i]_vars

\* Both fields of a backend have been written, and a forwarding call to it
\* has returned.
C13_Witness ==
    \E i \in Pool : \E r \in Requests :
        /\ ~servers[i].Healthy
        /\ servers[i].ActiveConnections > 0
        /\ h[r].pc = "lock133"
        /\ h[r].server = i

\* FairSpec with every forwarding call and every probe call returning.
FairReturnSpec ==
    /\ FairSpec
    /\ \A r \in Requests : WF_vars(\E out \in ForwardOutcomes : ForwardDone(r, out))
    /\ \A i \in Slots : WF_vars(\E o \in ProbeOutcomes : HCProbeDone(i, o))

\* Handler r, checker i, is waiting in a Mutex.Lock.
HandlerWaits(r) == h[r].pc \in {"scanLock", "lock127", "lock133"}
CheckerWaits(i) == i \in DOMAIN hc /\ hc[i].pc = "lock106"

\* C14: as long as the process is serving, every Lock that a handler (in the
\* scan or around its count) or a health checker waits in is eventually
\* acquired.
C14_EveryLockAcquired ==
    /\ \A r \in Requests : HandlerWaits(r) ~> (~HandlerWaits(r) \/ phase # "serving")
    /\ \A i \in Slots : CheckerWaits(i) ~> (~CheckerWaits(i) \/ phase # "serving")

\* The mutexes handler r has locked; handler r is inside nextServerLeastActive.
GuardsHeld(r) == {i \in Pool : servers[i].Mu = ByReq(r)}
InScan(r) == h[r].pc \in {"select", "scanLock", "scanBody"}

\* C15: a step of the selector changes no backend's activeConnections or
\* healthy; the selector holds at most one mutex during the scan and none
\* when it has returned.
C15_SelectorPureRead ==
    /\ [](\A r \in Requests :
            /\ InScan(r) => Cardinality(GuardsHeld(r)) <= 1
            /\ Selected(r) => GuardsHeld(r) = {})
    /\ [][\A r \in Requests :
            (SelectSeed(r) \/ ScanLock(r) \/ ScanVisit(r)) =>
                \A i \in Pool :
                    /\ servers'[i].ActiveConnections = servers[i].ActiveConnections
                    /\ servers'[i].Healthy = servers[i].Healthy]_vars

\* The selector has returned from a scan of two backends, one with a
\* connection counted and one unhealthy.
C15_Witness ==
    \E r \in Requests :
        /\ Selected(r)
        /\ Len(servers) >= 2
        /\ \E i \in Pool : servers[i].ActiveConnections > 0
        /\ \E j \in Pool : ~servers[j].Healthy

\* C16: startup leaves every backend healthy with no connections and every
\* checker waiting for its first tick, and a healthy flag falls only in the
\* step that ends a probe iteration of that backend's checker.
C16_OptimisticStart ==
    [][/\ Startup =>
            \A i \in DOMAIN servers' :
                /\ servers'[i].Healthy
                /\ servers'[i].ActiveConnections = 0
                /\ hc'[i].pc = "tick"
       /\ \A i \in Pool :
            (servers[i].Healthy /\ ~servers'[i].Healthy) =>
                (hc[i].pc = "locked" /\ hc'[i].pc = "tick")]_vars

\* A request is being forwarded while every backend is healthy and every
\* checker waits for a tick.
C16_Witness ==
    /\ phase = "serving"
    /\ Pool # {}
    /\ \A i \in Pool : servers[i].Healthy /\ hc[i].pc = "tick"
    /\ \E r \in Requests : h[r].pc = "forward"

\* Two handlers hold the same healthy backend from the selector, neither has
\* counted yet, and another healthy backend has the same load.
BothSelected ==
    \E r1 \in Requests : \E r2 \in Requests \ {r1} :
        /\ Selected(r1) /\ Selected(r2)
        /\ h[r1].server = h[r2].server
        /\ servers[h[r1].server].Healthy
        /\ \E j \in HealthyServers \ {h[r1].server} :
              servers[j].ActiveConnections = servers[h[r1].server].ActiveConnections

\* Two forwarding calls to one backend are outstanding.
TwoInFlight == \E i \in Pool : Cardinality(InFlight(i)) >= 2

\* A forwarding call has ended, or the process has died.
ForwardEnded ==
    \/ phase # "serving"
    \/ \E r \in Requests : h[r].pc \in {"lock133", "dec135", "done", "panicked"}

\* C17: two handlers that got the same backend from the selector before
\* either counted both get to forward to it, unless a forwarding call ends
\* first.
C17_BothForward == BothSelected ~> (TwoInFlight \/ ForwardEnded)

\* C18: the running minimum of the selector is never -1, and a scan step
\* replaces the candidate only by an entry with a strictly smaller count.
C18_SentinelUnreachable ==
    /\ [](\A r \in Requests : h[r].leastActiveConnections # -1)
    /\ [][\A r \in Requests :
            (ScanVisit(r) /\ h'[r].leastActiveServer # h[r].leastActiveServer) =>
                servers[h[r].idx].ActiveConnections < h[r].leastActiveConnections]_vars

\* The comparison of line 69 is evaluated on a healthy entry whose count is
\* not below the running minimum.
C18_Witness ==
    \E r \in Requests :
        /\ h[r].pc = "scanBody"
        /\ servers[h[r].idx].Healthy
        /\ servers[h[r].idx].ActiveConnections >= h[r].leastActiveConnections
        /\ h[r].idx > 1

====
